---- MODULE Spec2Model ----
(***************************************************************************)
(* A model of the ingestion-and-retrieval core of the RAG chatbot API      *)
(* (src/main.py): the in-memory source registry `added_sources`, the       *)
(* Chroma collection behind `collection`, and the handlers                 *)
(* add_texts_to_chroma, delete_source, clear_all_sources, get_sources and  *)
(* chat.                                                                   *)
(*                                                                         *)
(* Spec         every handler runs to completion (one action per call);    *)
(*              a call to the collection or to the generator may raise.    *)
(* SpecReliable the same handlers, no backend call ever raises.            *)
(* SpecConc     requests run concurrently; a registry read, a collection   *)
(*              call and a registry write are separate steps.              *)
(***************************************************************************)
EXTENDS Integers, Sequences, FiniteSets, TLC

VARIABLES
    collection,     \* TRUE iff the module-level `collection` is not None
    store,          \* the records held by the Chroma collection
    added_sources,  \* the module-level list of processed sources
    nextId,         \* number of uuid4 values handed out so far
    lastCall,       \* the response of the request completed last
    prevCleared,    \* history: the request before it was a clear_all_sources that succeeded
    deleted,        \* history: ids for which delete_source succeeded
    purged,         \* history: names deleted by delete_source, not ingested since
    threads,        \* SpecConc: the requests received, with their locals
    gen,            \* SpecConc: identity of the list object bound to added_sources
    orphans         \* SpecConc: list objects no longer bound, still referenced

vars == <<collection, store, added_sources, nextId, lastCall, prevCleared, deleted, purged, threads, gen, orphans>>

-----------------------------------------------------------------------------
(* Bounds of the model. *)

\* most uuid4 values drawn in one behaviour
MaxId == 8
\* most requests received in one behaviour of SpecConc
MaxRequests == 3

(* Sample inputs. *)

\* (source_name, source_type) as the two callers pass them: scrape_url passes
\* (req.url, "url"), upload_file passes (file.filename, "file")
SourceArgs == { <<"http://a", "url">>, <<"doc.txt", "file">> }
Names == { a[1] : a \in SourceArgs }

\* chunk-sized pieces of text, and user questions
Docs == { "d1", "d2" }
Queries == { "q1", "q2" }

\* raw texts handed to add_texts_to_chroma: sequences of whitespace and of
\* chunk-sized pieces
Texts ==
    { <<>>, <<" ", "\n">>,
      <<" ", "d2", " ">>, <<"d1", "\n", "d2">>, <<"d2", " ", "d1", "d1">> }

\* the texts sent in SpecConc
ConcTexts == { <<>>, <<" ", "d2", " ">> }

Whitespace == { " ", "\n", "\t" }

-----------------------------------------------------------------------------
(* Pure helpers. *)

\* str.strip(): drop leading and trailing whitespace
RECURSIVE lstrip(_)
lstrip(s) == IF s # <<>> /\ Head(s) \in Whitespace THEN lstrip(Tail(s)) ELSE s

RECURSIVE rstrip(_)
rstrip(s) ==
    IF s # <<>> /\ s[Len(s)] \in Whitespace
    THEN rstrip(SubSeq(s, 1, Len(s) - 1))
    ELSE s

\* faulty variant: the text is tested without .strip()
strip_missing(s) == s

strip(s) == rstrip(lstrip(s))

\* text_splitter.split_text: the pieces of the text, separators dropped
RECURSIVE split_text(_)
split_text(s) ==
    IF s = <<>> THEN <<>>
    ELSE IF Head(s) \in Whitespace THEN split_text(Tail(s))
         ELSE <<Head(s)>> \o split_text(Tail(s))

\* embedding_model.encode: one fixed vector (here one coordinate) per string
Encode(s) ==
    CASE s = "d1" -> 0
      [] s = "d2" -> 2
      [] s = "q1" -> 0
      [] s = "q2" -> 3

\* the collection's distance (squared L2)
Distance(q, d) == (Encode(q) - Encode(d)) * (Encode(q) - Encode(d))

-----------------------------------------------------------------------------
(* The Chroma collection, by the contract the handlers rely on. *)

\* collection.add(ids, embeddings, documents, metadatas): one record per chunk,
\* ids first..first+Len(splits)-1, metadata {source, type}
NewRecords(first, splits, source_name, source_type) ==
    { [id |-> first + i - 1, source |-> source_name, type |-> source_type, doc |-> splits[i]]
        : i \in 1..Len(splits) }

\* faulty variant: only one matching record is removed
DeleteWhere_one(recs, name) ==
    IF \E c \in recs : c.source = name
    THEN recs \ { CHOOSE c \in recs : c.source = name }
    ELSE recs

\* collection.delete(where={"source": name}): removes every matching record;
\* no match is not an error
DeleteWhere(recs, name) == { c \in recs : c.source # name }

\* the record of `recs` nearest to q (ties: the one added first)
Nearest(recs, q) ==
    CHOOSE c \in recs : \A d \in recs :
        \/ Distance(q, c.doc) < Distance(q, d.doc)
        \/ Distance(q, c.doc) = Distance(q, d.doc) /\ c.id <= d.id

\* collection.query(query_embeddings=[q], n_results=k): at most k records,
\* nearest first
RECURSIVE Query(_, _, _)
Query(recs, q, k) ==
    IF k = 0 \/ recs = {} THEN <<>>
    ELSE LET c == Nearest(recs, q) IN <<c>> \o Query(recs \ {c}, q, k - 1)

-----------------------------------------------------------------------------
(* Responses. *)

NotInitialized == "Chroma DB collection is not initialized."
NoText == "No extractable text found."
NotChunked == "Text couldn't be chunked."
NotFound == "Source not found."
BackendError == "vector db error"
GeneratorDown == "Failed to connect to local Ollama"

\* the fields a response may carry; a handler fills in the ones it sets
Response(op, args, status, detail) ==
    [ op |-> op,         \* the handler
      args |-> args,     \* the arguments it was called with
      status |-> status, detail |-> detail,
      name |-> "",       \* delete_source: source_name, once resolved
      n |-> 0,           \* add_texts_to_chroma: the chunk count returned
      deletes |-> <<>>,  \* the collection.delete calls issued, by name, in order
      hits |-> <<>>,     \* chat: the records collection.query returned
      context |-> <<>>,  \* chat: context_text
      prompted |-> FALSE \* chat: the prompt was assembled
    ]

NoCall == Response("none", <<>>, 0, "")

\* what a handler leaves behind: its response and the state it wrote
Outcome(resp, recs, sources, ids) ==
    [ resp |-> resp, store |-> recs, added_sources |-> sources, nextId |-> ids ]

\* raise HTTPException before anything was written
Raise(op, args, status, detail) ==
    Outcome(Response(op, args, status, detail), store, added_sources, nextId)

-----------------------------------------------------------------------------
(* The registry. *)

\* get_sources(): the list as it is
get_sources == added_sources

\* next((s for s in added_sources if s["id"] == source_id), None), as the
\* set of matches (empty for None)
Lookup(sources, source_id) == { i \in 1..Len(sources) : sources[i].id = source_id }

\* faulty variant: the filter keeps what it should drop (== for !=)
RECURSIVE WithoutId_inverted(_, _)
WithoutId_inverted(sources, source_id) ==
    IF sources = <<>> THEN <<>>
    ELSE IF Head(sources).id # source_id
         THEN WithoutId_inverted(Tail(sources), source_id)
         ELSE <<Head(sources)>> \o WithoutId_inverted(Tail(sources), source_id)

\* [s for s in added_sources if s["id"] != source_id]
RECURSIVE WithoutId(_, _)
WithoutId(sources, source_id) ==
    IF sources = <<>> THEN <<>>
    ELSE IF Head(sources).id = source_id
         THEN WithoutId(Tail(sources), source_id)
         ELSE <<Head(sources)>> \o WithoutId(Tail(sources), source_id)

\* faulty variant: name and type change places
NewSource_swapped(id, source_name, source_type) ==
    [ id |-> id, name |-> source_type, type |-> source_name ]

\* {"id": str(uuid.uuid4()), "name": source_name, "type": source_type}
NewSource(id, source_name, source_type) ==
    [ id |-> id, name |-> source_name, type |-> source_type ]

RegistryNames(sources) == { sources[i].name : i \in 1..Len(sources) }
RegistryIds(sources) == { sources[i].id : i \in 1..Len(sources) }
StoreNames(recs) == { c.source : c \in recs }

-----------------------------------------------------------------------------
(* The handlers.  Each returns the response and the state it leaves.  The    *)
(* Boolean arguments say whether the backend call the handler makes returns *)
(* (TRUE) or raises (FALSE).                                                *)

Separator == "\n\n---\n\n"

\* "\n\n---\n\n".join(doc_list)
RECURSIVE Join(_)
Join(doc_list) ==
    IF doc_list = <<>> THEN <<>>
    ELSE IF Len(doc_list) = 1 THEN doc_list
         ELSE <<Head(doc_list), Separator>> \o Join(Tail(doc_list))

\* faulty variant: one result fewer is asked for
N_RESULTS_fewer == 5 - 1

\* n_results of the query in chat
N_RESULTS == 5

\* (the uuids drawn for a collection.add that raises are stored nowhere, so
\* the counter moves only when the add returns)
add_texts_to_chroma(text, source_name, source_type, addOk) ==
    LET op == "add_texts_to_chroma"
        args == <<text, source_name, source_type>>
        splits == split_text(text)
        n == Len(splits)
    IN  IF ~collection THEN Raise(op, args, 500, NotInitialized)
        ELSE IF strip(text) = <<>> THEN Raise(op, args, 400, NoText)
        ELSE IF splits = <<>> THEN Raise(op, args, 400, NotChunked)
        ELSE IF ~addOk THEN Raise(op, args, 500, BackendError)
        ELSE Outcome(
                [Response(op, args, 200, "success") EXCEPT !.n = n],
                store \cup NewRecords(nextId + 1, splits, source_name, source_type),
                Append(added_sources, NewSource(nextId + n + 1, source_name, source_type)),
                nextId + n + 1)

delete_source(source_id, deleteOk) ==
    LET op == "delete_source"
        args == <<source_id>>
        found == Lookup(added_sources, source_id)
    IN  IF found = {}
        THEN Raise(op, args, 404, NotFound)
        ELSE
            LET source_to_delete == added_sources[CHOOSE i \in found : \A j \in found : i <= j]
                source_name == source_to_delete.name
            IN  IF collection /\ ~deleteOk
                THEN Outcome(
                        [Response(op, args, 500, BackendError) EXCEPT
                            !.name = source_name, !.deletes = <<source_name>>],
                        store, added_sources, nextId)
                ELSE Outcome(
                        [Response(op, args, 200, "success") EXCEPT
                            !.name = source_name,
                            !.deletes = IF collection THEN <<source_name>> ELSE <<>>],
                        IF collection THEN DeleteWhere(store, source_name) ELSE store,
                        WithoutId(added_sources, source_id),
                        nextId)

\* the collection after collection.delete(where={"source": name}) for each
\* name of `names` in turn
RECURSIVE DeleteEach(_, _)
DeleteEach(recs, names) ==
    IF names = <<>> THEN recs
    ELSE DeleteEach(DeleteWhere(recs, Head(names)), Tail(names))

\* faulty variant: without `global added_sources` the assignment binds a local and
\* the registry is never emptied
clear_all_sources_local(failAt) ==
    LET op == "clear_all_sources"
        args == <<>>
        names == [i \in 1..Len(added_sources) |-> added_sources[i].name]
    IN  IF collection /\ failAt > 0
        THEN Outcome(
                [Response(op, args, 500, BackendError) EXCEPT !.deletes = SubSeq(names, 1, failAt)],
                DeleteEach(store, SubSeq(names, 1, failAt - 1)),
                added_sources, nextId)
        ELSE Outcome(
                [Response(op, args, 200, "success") EXCEPT
                    !.deletes = IF collection THEN names ELSE <<>>],
                IF collection THEN DeleteEach(store, names) ELSE store,
                added_sources, nextId)

\* faulty variant: each Source leaves the registry as soon as its records are deleted,
\* so a later failure leaves the registry shortened
clear_all_sources_eager(failAt) ==
    LET op == "clear_all_sources"
        args == <<>>
        names == [i \in 1..Len(added_sources) |-> added_sources[i].name]
    IN  IF collection /\ failAt > 0
        THEN Outcome(
                [Response(op, args, 500, BackendError) EXCEPT !.deletes = SubSeq(names, 1, failAt)],
                DeleteEach(store, SubSeq(names, 1, failAt - 1)),
                SubSeq(added_sources, failAt, Len(added_sources)), nextId)
        ELSE Outcome(
                [Response(op, args, 200, "success") EXCEPT
                    !.deletes = IF collection THEN names ELSE <<>>],
                IF collection THEN DeleteEach(store, names) ELSE store,
                <<>>, nextId)

\* failAt = 0: no collection.delete raises; failAt = i > 0: the i-th one does
clear_all_sources(failAt) ==
    LET op == "clear_all_sources"
        args == <<>>
        names == [i \in 1..Len(added_sources) |-> added_sources[i].name]
    IN  IF collection /\ failAt > 0
        THEN Outcome(
                [Response(op, args, 500, BackendError) EXCEPT !.deletes = SubSeq(names, 1, failAt)],
                DeleteEach(store, SubSeq(names, 1, failAt - 1)),
                added_sources, nextId)
        ELSE Outcome(
                [Response(op, args, 200, "success") EXCEPT
                    !.deletes = IF collection THEN names ELSE <<>>],
                IF collection THEN DeleteEach(store, names) ELSE store,
                <<>>, nextId)

chat(message, queryOk, generatorOk) ==
    LET op == "chat"
        args == <<message>>
    IN
    IF ~collection THEN Raise(op, args, 500, NotInitialized)
    ELSE IF ~queryOk THEN Raise(op, args, 500, BackendError)
    ELSE
        LET results == Query(store, message, N_RESULTS)
            doc_list == [i \in 1..Len(results) |-> results[i].doc]
            context_text == Join(doc_list)
            status == IF generatorOk THEN 200 ELSE 503
            detail == IF generatorOk THEN "response" ELSE GeneratorDown
        IN  Outcome(
                [Response(op, args, status, detail) EXCEPT
                    !.hits = results,
                    !.context = context_text, !.prompted = TRUE],
                store, added_sources, nextId)

-----------------------------------------------------------------------------
(* One request at a time. *)

Init ==
    /\ collection \in BOOLEAN
    /\ store = {}
    /\ added_sources = <<>>
    /\ nextId = 0
    /\ lastCall = NoCall
    /\ prevCleared = FALSE
    /\ deleted = {}
    /\ purged = {}
    /\ threads = <<>>
    /\ gen = 0
    /\ orphans = [r \in {} |-> <<>>]

\* the handler returned (or raised): its writes and its response become visible
Complete(r, nowDeleted, nowPurged) ==
    /\ store' = r.store
    /\ added_sources' = r.added_sources
    /\ nextId' = r.nextId
    /\ lastCall' = r.resp
    /\ prevCleared' = (lastCall.op = "clear_all_sources" /\ lastCall.status = 200)
    /\ deleted' = nowDeleted
    /\ purged' = nowPurged
    /\ UNCHANGED <<collection, threads, gen, orphans>>

\* the ids a client may send to DELETE /api/sources/{source_id}: the listed
\* ones, the uuid drawn last, and one that was never drawn
IdsToTry == RegistryIds(added_sources) \cup {nextId, MaxId + 1}

Ingest(B) ==
    \E text \in Texts, a \in SourceArgs, addOk \in B :
        /\ nextId + Len(split_text(text)) + 1 <= MaxId
        /\ LET r == add_texts_to_chroma(text, a[1], a[2], addOk)
           IN  Complete(r, deleted, IF r.resp.status = 200 THEN purged \ {a[1]} ELSE purged)

DeleteSource(B) ==
    \E source_id \in IdsToTry, deleteOk \in B :
        LET r == delete_source(source_id, deleteOk)
        IN  Complete(r,
                     IF r.resp.status = 200 THEN deleted \cup {source_id} ELSE deleted,
                     IF r.resp.status = 200 THEN purged \cup {r.resp.name} ELSE purged)

ClearAll(B) ==
    \E failAt \in 0..Len(added_sources) :
        /\ failAt > 0 => FALSE \in B /\ collection
        /\ Complete(clear_all_sources(failAt), deleted, purged)

Chat(B) ==
    \E message \in Queries, queryOk \in B, generatorOk \in BOOLEAN :
        /\ ~queryOk => generatorOk
        /\ Complete(chat(message, queryOk, generatorOk), deleted, purged)

GetSources ==
    Complete(Raise("get_sources", <<>>, 200, "sources"), deleted, purged)

Next ==
    \/ Ingest(BOOLEAN)
    \/ DeleteSource(BOOLEAN)
    \/ ClearAll(BOOLEAN)
    \/ Chat(BOOLEAN)
    \/ GetSources

Spec == Init /\ [][Next]_vars

NextReliable ==
    \/ Ingest({TRUE})
    \/ DeleteSource({TRUE})
    \/ ClearAll({TRUE})
    \/ Chat({TRUE})
    \/ GetSources

SpecReliable == Init /\ [][NextReliable]_vars

-----------------------------------------------------------------------------
(* Properties, one request at a time. *)

ADD == "add_texts_to_chroma"
DEL == "delete_source"
CLR == "clear_all_sources"

Range(s) == { s[i] : i \in 1..Len(s) }

Min(a, b) == IF a <= b THEN a ELSE b

\* the registry without its i-th entry
DropAt(sources, i) == SubSeq(sources, 1, i - 1) \o SubSeq(sources, i + 1, Len(sources))

\* C1: with a backend that never raises, after any sequence of completed
\* ingest / delete_source / delete_all_sources calls the distinct `source`
\* values in the collection are exactly the names in the registry.
C1_NamesAgree ==
    collection => StoreNames(store) = RegistryNames(added_sources)

\* C3: a delete_source that succeeded leaves no Source with that id in the
\* listing, then or later, and until the name is ingested again the collection
\* holds no record of that name and no chat retrieves one.
C3_DeletionConsistency ==
    /\ \A id \in deleted : id \notin RegistryIds(get_sources)
    /\ \A c \in store : c.source \notin purged
    /\ lastCall.op = "chat" =>
          \A i \in 1..Len(lastCall.hits) :
              /\ lastCall.hits[i] \in store
              /\ lastCall.hits[i].source \notin purged

\* a chat that retrieved records while a deleted name is still absent and
\* another source's records remain
C3_Witness ==
    /\ lastCall.op = "chat"
    /\ lastCall.hits # <<>>
    /\ purged # {}
    /\ deleted # {}

\* empty, or whitespace only
IsBlank(text) == \A i \in 1..Len(text) : text[i] \in Whitespace

\* C4 as stated: in every state, initialized collection or not, an ingest of
\* blank text fails with the empty-content error and changes neither the
\* registry nor the collection.
C4_BlankAlwaysEmptyContent ==
    [][ (lastCall'.op = ADD /\ IsBlank(lastCall'.args[1])) =>
            /\ lastCall'.status = 400
            /\ lastCall'.detail = NoText
            /\ added_sources' = added_sources
            /\ store' = store ]_vars

\* C4, amended: an ingest of blank text always fails and changes neither the
\* registry nor the collection; the failure is the empty-content error when the
\* collection is initialized and the not-initialized error when it is not.
C4_BlankRejected ==
    [][ (lastCall'.op = ADD /\ IsBlank(lastCall'.args[1])) =>
            /\ collection => lastCall'.status = 400 /\ lastCall'.detail = NoText
            /\ ~collection => lastCall'.status = 500 /\ lastCall'.detail = NotInitialized
            /\ added_sources' = added_sources
            /\ store' = store
            /\ nextId' = nextId ]_vars

\* blank, but not empty, text was rejected while sources and records exist
C4_Witness ==
    /\ lastCall.op = ADD
    /\ lastCall.args[1] # <<>>
    /\ IsBlank(lastCall.args[1])
    /\ lastCall.detail = NoText
    /\ added_sources # <<>>
    /\ store # {}

\* C5: with the collection not initialized, ingest, chat, delete_source and
\* delete_all_sources all fail with the not-initialized error; none reports
\* success and none changes the registry.
C5_UninitializedFailsFast ==
    [][ (~collection /\ lastCall'.op \in {ADD, "chat", DEL, CLR}) =>
            /\ lastCall'.status = 500
            /\ lastCall'.detail = NotInitialized
            /\ added_sources' = added_sources ]_vars

\* C6: delete_source with an id no Source holds answers not-found and changes
\* neither registry nor collection; with a known id it never answers
\* not-found, and when it succeeds the registry loses exactly that Source, the
\* others keeping their order; when the collection raises the registry is as
\* before.
C6_DeleteSource ==
    [][ lastCall'.op = DEL =>
          LET id == lastCall'.args[1] IN
          IF id \notin RegistryIds(added_sources)
          THEN /\ lastCall'.status = 404
               /\ lastCall'.detail = NotFound
               /\ added_sources' = added_sources
               /\ store' = store
          ELSE /\ lastCall'.status \in {200, 500}
               /\ lastCall'.status = 500 =>
                    lastCall'.detail = BackendError /\ added_sources' = added_sources
               /\ lastCall'.status = 200 =>
                    \E i \in 1..Len(added_sources) :
                        /\ added_sources[i].id = id
                        /\ added_sources' = DropAt(added_sources, i) ]_vars

\* a Source in the middle of the list was deleted and two others remain
C6_Witness ==
    /\ lastCall.op = DEL
    /\ lastCall.status = 200
    /\ Len(added_sources) = 2
    /\ added_sources[1].id < lastCall.args[1]
    /\ lastCall.args[1] < added_sources[2].id

\* after a delete_all_sources that succeeded the listing is empty
C7_ListEmptyAfterClear ==
    lastCall.op = CLR =>
        /\ lastCall.status = 200 => get_sources = <<>>
        \* it fails only when a collection deletion it issued raised
        /\ lastCall.status # 200 =>
              /\ lastCall.status = 500
              /\ lastCall.detail = BackendError
              /\ lastCall.deletes # <<>>

\* a delete_all_sources directly after a successful one is a successful no-op
C7_SecondClearNoOp ==
    (lastCall.op = CLR /\ lastCall.status = 200 /\ lastCall'.op = CLR) =>
        /\ lastCall'.status = 200
        /\ lastCall'.deletes = <<>>
        /\ added_sources' = added_sources
        /\ store' = store

\* C7: a delete_all_sources succeeds unless a collection deletion it issues
\* raises, and leaves the listing empty; a delete_all_sources that directly
\* follows a successful one succeeds, issues no collection deletion and changes
\* neither registry nor collection.
C7_IdempotentClear == []C7_ListEmptyAfterClear /\ [][C7_SecondClearNoOp]_vars

\* the second of two delete_all_sources calls in a row returned, after
\* something had been ingested
C7_Witness ==
    /\ prevCleared
    /\ lastCall.op = CLR
    /\ lastCall.status = 200
    /\ collection
    /\ nextId > 0

\* C8 as stated: after a successful ingest on an empty registry the listing is
\* one entry with the given name and type and a chunk_count equal to the
\* number of chunks written.
C8_EntryHasChunkCount ==
    [][ (lastCall'.op = ADD /\ lastCall'.status = 200 /\ added_sources = <<>>) =>
            /\ Len(get_sources') = 1
            /\ get_sources'[1].name = lastCall'.args[2]
            /\ get_sources'[1].type = lastCall'.args[3]
            /\ "chunk_count" \in DOMAIN get_sources'[1]
            /\ get_sources'[1].chunk_count = lastCall'.n ]_vars

\* C8, amended: a successful ingest appends exactly one Source, of the given
\* name and type and with a fresh id, at the end of the list (so on an empty
\* registry the listing is that one entry); an entry carries id, name and type
\* only; the chunk count is what ingest returns: the number of records it
\* wrote to the collection, all of the given name and type, and at least 1.
C8_IngestAppendsOne ==
    [][ (lastCall'.op = ADD /\ lastCall'.status = 200) =>
          LET k == Len(added_sources)
              e == get_sources'[k + 1]
              new == store' \ store
          IN  /\ Len(get_sources') = k + 1
              /\ SubSeq(get_sources', 1, k) = added_sources
              /\ DOMAIN e = {"id", "name", "type"}
              /\ e.name = lastCall'.args[2]
              /\ e.type = lastCall'.args[3]
              /\ e.id > nextId
              /\ e.id \notin RegistryIds(added_sources) \cup deleted
              /\ store \subseteq store'
              /\ lastCall'.n = Cardinality(new)
              /\ lastCall'.n >= 1
              /\ \A c \in new :
                    /\ c.source = e.name /\ c.type = e.type
                    /\ c.id > nextId /\ c.id # e.id ]_vars

\* an ingest of several chunks on an empty registry
C8_Witness ==
    /\ lastCall.op = ADD
    /\ lastCall.status = 200
    /\ Len(get_sources) = 1
    /\ lastCall.n >= 2

\* C9: a chat on an initialized collection whose query returns builds its
\* context from min(5, number of records) records, none nearer to the question
\* left out, joined in ascending distance; with no records the context is
\* empty and the prompt is assembled all the same.
C9_TopKContext ==
    (lastCall.op = "chat" /\ (lastCall.status # 500 \/ lastCall.prompted)) =>
        LET q == lastCall.args[1]
            hits == lastCall.hits
            k == Len(hits)
        IN  /\ collection
            /\ lastCall.prompted
            /\ k = Min(5, Cardinality(store))
            /\ \A i \in 1..k : hits[i] \in store
            /\ \A i, j \in 1..k : i < j =>
                  /\ hits[i] # hits[j]
                  /\ Distance(q, hits[i].doc) <= Distance(q, hits[j].doc)
            /\ \A c \in store : c \notin Range(hits) =>
                  \A i \in 1..k : Distance(q, hits[i].doc) <= Distance(q, c.doc)
            /\ Len(lastCall.context) = IF k = 0 THEN 0 ELSE 2 * k - 1
            /\ \A i \in 1..k : lastCall.context[2 * i - 1] = hits[i].doc
            /\ \A i \in 1..(k - 1) : lastCall.context[2 * i] = Separator

\* more than five records, at two distances from the question, were there
C9_Witness ==
    /\ lastCall.op = "chat"
    /\ lastCall.prompted
    /\ Cardinality(store) > 5
    /\ Len(lastCall.hits) = 5
    /\ Distance(lastCall.args[1], lastCall.hits[1].doc)
          < Distance(lastCall.args[1], lastCall.hits[5].doc)

\* C10: an ingest, delete_source or delete_all_sources that reports an error
\* leaves the registry as it was.
C10_ErrorLeavesRegistry ==
    [][ (lastCall'.op \in {ADD, DEL, CLR} /\ lastCall'.status # 200) =>
            added_sources' = added_sources ]_vars

\* a delete_all_sources whose second collection deletion raised
C10_Witness ==
    /\ lastCall.op = CLR
    /\ lastCall.status = 500
    /\ Len(lastCall.deletes) = 2
    /\ lastCall.deletes[1] # lastCall.deletes[2]
    /\ Len(added_sources) >= 2

-----------------------------------------------------------------------------
(* Requests running concurrently.  The sync handlers delete_source and      *)
(* clear_all_sources run on worker threads; add_texts_to_chroma runs inside *)
(* the async handlers, on the event loop, one call at a time.  A step is    *)
(* one registry read, one collection call or one registry write.  No        *)
(* backend call raises here.                                                *)

Thread(op, args) ==
    [ op |-> op, args |-> args, pc |-> "start", status |-> 0, detail |-> "",
      name |-> "",     \* delete_source: source_name
      n |-> 0,         \* add_texts_to_chroma: len(splits)
      ref |-> 0,       \* the list object loaded from the global added_sources
      idx |-> 0,       \* clear_all_sources: entries the for loop has consumed
      kept |-> <<>> ]  \* delete_source: the filtered list, not yet bound

Done(t, status, detail) == [t EXCEPT !.pc = "done", !.status = status, !.detail = detail]

\* the thread holds a reference to a list object
Holding(t) == t.pc \in {"loaded", "loop"}

Refs(ts) == { ts[i].ref : i \in { j \in 1..Len(ts) : Holding(ts[j]) } }

\* the list object of identity r
ListOf(r) == IF r = gen THEN added_sources ELSE orphans[r]

\* threads become ts and nothing is bound or appended: unreferenced list
\* objects go away
Continue(ts) ==
    /\ threads' = ts
    /\ orphans' = [r \in Refs(ts) \ {gen} |-> orphans[r]]
    /\ UNCHANGED <<added_sources, gen>>

\* added_sources = new (a global rebinding): the old object lives on for the
\* threads that loaded it
Rebind(ts, new) ==
    /\ threads' = ts
    /\ added_sources' = new
    /\ gen' = gen + 1
    /\ orphans' = [r \in Refs(ts) |-> ListOf(r)]

Sequential == <<collection, lastCall, prevCleared, deleted, purged>>

Receive ==
    /\ Len(threads) < MaxRequests
    /\ \E req \in
            { <<ADD, <<text, a[1], a[2]>>>> : text \in ConcTexts, a \in SourceArgs }
            \cup { <<DEL, <<id>>>> : id \in IdsToTry }
            \cup { <<CLR, <<>>>> } :
          threads' = Append(threads, Thread(req[1], req[2]))
    /\ UNCHANGED <<store, added_sources, nextId, gen, orphans, Sequential>>

\* add_texts_to_chroma, to the return of collection.add
IngestAdd(i) ==
    LET t == threads[i]
        splits == split_text(t.args[1])
    IN  /\ t.op = ADD /\ t.pc = "start"
        /\ \A j \in 1..Len(threads) :
              threads[j].op = ADD => threads[j].pc \in {"start", "done"}
        /\ nextId + Len(splits) + 1 <= MaxId
        /\ IF ~collection
           THEN Continue([threads EXCEPT ![i] = Done(t, 500, NotInitialized)])
                /\ UNCHANGED <<store, nextId>>
           ELSE IF strip(t.args[1]) = <<>>
           THEN Continue([threads EXCEPT ![i] = Done(t, 400, NoText)])
                /\ UNCHANGED <<store, nextId>>
           ELSE IF splits = <<>>
           THEN Continue([threads EXCEPT ![i] = Done(t, 400, NotChunked)])
                /\ UNCHANGED <<store, nextId>>
           ELSE /\ store' = store \cup NewRecords(nextId + 1, splits, t.args[2], t.args[3])
                /\ nextId' = nextId + Len(splits)
                /\ Continue([threads EXCEPT ![i] = [t EXCEPT !.pc = "added", !.n = Len(splits)]])
        /\ UNCHANGED Sequential

\* added_sources.append(...): the receiver is loaded first
IngestLoad(i) ==
    LET t == threads[i]
    IN  /\ t.op = ADD /\ t.pc = "added"
        /\ Continue([threads EXCEPT ![i] = [t EXCEPT !.pc = "loaded", !.ref = gen]])
        /\ UNCHANGED <<store, nextId, Sequential>>

\* ... then the argument is built and the loaded list is appended to
IngestAppend(i) ==
    LET t == threads[i]
        source == NewSource(nextId + 1, t.args[2], t.args[3])
        ts == [threads EXCEPT ![i] = Done(t, 200, "success")]
    IN  /\ t.op = ADD /\ t.pc = "loaded"
        /\ nextId' = nextId + 1
        /\ threads' = ts
        /\ IF t.ref = gen
           THEN /\ added_sources' = Append(added_sources, source)
                /\ orphans' = [r \in Refs(ts) \ {gen} |-> orphans[r]]
           ELSE /\ added_sources' = added_sources
                /\ orphans' = [r \in Refs(ts) \ {gen} |->
                                 IF r = t.ref THEN Append(orphans[r], source) ELSE orphans[r]]
        /\ UNCHANGED <<store, gen, Sequential>>

\* delete_source: the lookup
DeleteLookup(i) ==
    LET t == threads[i]
        found == Lookup(added_sources, t.args[1])
    IN  /\ t.op = DEL /\ t.pc = "start"
        /\ IF found = {}
           THEN Continue([threads EXCEPT ![i] = Done(t, 404, NotFound)])
           ELSE Continue([threads EXCEPT ![i] =
                    [t EXCEPT !.pc = "found",
                              !.name = added_sources[CHOOSE k \in found : \A j \in found : k <= j].name]])
        /\ UNCHANGED <<store, nextId, Sequential>>

\* delete_source: collection.delete(where={"source": source_name})
DeleteStore(i) ==
    LET t == threads[i]
    IN  /\ t.op = DEL /\ t.pc = "found"
        /\ store' = IF collection THEN DeleteWhere(store, t.name) ELSE store
        /\ Continue([threads EXCEPT ![i] = [t EXCEPT !.pc = "deleted"]])
        /\ UNCHANGED <<nextId, Sequential>>

\* delete_source: the list comprehension reads the registry
DeleteFilter(i) ==
    LET t == threads[i]
    IN  /\ t.op = DEL /\ t.pc = "deleted"
        /\ Continue([threads EXCEPT ![i] =
                [t EXCEPT !.pc = "filtered", !.kept = WithoutId(added_sources, t.args[1])]])
        /\ UNCHANGED <<store, nextId, Sequential>>

\* delete_source: the result is bound to added_sources
DeleteRebind(i) ==
    LET t == threads[i]
    IN  /\ t.op = DEL /\ t.pc = "filtered"
        /\ Rebind([threads EXCEPT ![i] = [Done(t, 200, "success") EXCEPT !.kept = <<>>]], t.kept)
        /\ UNCHANGED <<store, nextId, Sequential>>

\* clear_all_sources: `if collection`, and the for loop takes its iterator
ClearIter(i) ==
    LET t == threads[i]
    IN  /\ t.op = CLR /\ t.pc = "start"
        /\ IF collection
           THEN Continue([threads EXCEPT ![i] = [t EXCEPT !.pc = "loop", !.ref = gen, !.idx = 0]])
           ELSE Continue([threads EXCEPT ![i] = [t EXCEPT !.pc = "reset"]])
        /\ UNCHANGED <<store, nextId, Sequential>>

\* clear_all_sources: the iterator yields the next entry of its list, whose
\* records are deleted, or is exhausted
ClearNext(i) ==
    LET t == threads[i]
        list == ListOf(t.ref)
    IN  /\ t.op = CLR /\ t.pc = "loop"
        /\ IF t.idx < Len(list)
           THEN /\ store' = DeleteWhere(store, list[t.idx + 1].name)
                /\ Continue([threads EXCEPT ![i] = [t EXCEPT !.idx = @ + 1]])
           ELSE /\ store' = store
                /\ Continue([threads EXCEPT ![i] = [t EXCEPT !.pc = "reset", !.ref = 0, !.idx = 0]])
        /\ UNCHANGED <<nextId, Sequential>>

\* clear_all_sources: added_sources = []
ClearRebind(i) ==
    LET t == threads[i]
    IN  /\ t.op = CLR /\ t.pc = "reset"
        /\ Rebind([threads EXCEPT ![i] = Done(t, 200, "success")], <<>>)
        /\ UNCHANGED <<store, nextId, Sequential>>

NextConc ==
    \/ Receive
    \/ \E i \in 1..Len(threads) : IngestAdd(i)
    \/ \E i \in 1..Len(threads) : IngestLoad(i)
    \/ \E i \in 1..Len(threads) : IngestAppend(i)
    \/ \E i \in 1..Len(threads) : DeleteLookup(i)
    \/ \E i \in 1..Len(threads) : DeleteStore(i)
    \/ \E i \in 1..Len(threads) : DeleteFilter(i)
    \/ \E i \in 1..Len(threads) : DeleteRebind(i)
    \/ \E i \in 1..Len(threads) : ClearIter(i)
    \/ \E i \in 1..Len(threads) : ClearNext(i)
    \/ \E i \in 1..Len(threads) : ClearRebind(i)

SpecConc == Init /\ [][NextConc]_vars

AllDone == \A i \in 1..Len(threads) : threads[i].pc = "done"

\* C2: for every interleaving, once all requests have completed no Source's
\* records remain in the collection without the Source being in the registry
\* (no ingested Source is missing, no registry update is lost).
C2_NoLostSource ==
    AllDone => StoreNames(store) \subseteq RegistryNames(added_sources)

====
